---- MODULE Spec2Model ----
(***************************************************************************)
(* Transform algebra (Isometry / Similarity) and plane / ray intersection  *)
(* of ultraviolet, modelled over exact scalars.                            *)
(*                                                                         *)
(* A scalar ($t = f32) is a pair <<n, d>>: the rational n/d in lowest      *)
(* terms with d > 0, or one of the IEEE specials  <<1,0>> = +inf,          *)
(* <<-1,0>> = -inf, <<0,0>> = NaN.  Rounding is not modelled (the claims   *)
(* are stated up to tolerance) and the sign of zero is not tracked.        *)
(* A vector ($vt) is a tuple of scalars, of length 2 or 3.  A rotor ($rt)  *)
(* is modelled by the rotation it performs, restricted to the rotations    *)
(* that map the coordinate axes to each other (compositions of quarter     *)
(* turns), so that every product is exact.  Such a rotation is a signed    *)
(* permutation r of the coordinates: r[i] = k says that coordinate i of    *)
(* r * v is v[k], and r[i] = -k that it is -v[k].                          *)
(***************************************************************************)
EXTENDS Integers, Sequences, FiniteSets, TLC

(* ------------------------------ bounds -------------------------------- *)
\* the translations kept in the state have integer coordinates in
\* -MaxCoord .. MaxCoord
MaxCoord == 1
\* the scale of a similarity kept in the state lies in 1/MaxScale .. MaxScale
MaxScale == 2
\* largest |coordinate| of a ray origin / direction and of a plane coordinate
MaxGeo == 1

(* ------------------------------ scalars ------------------------------- *)
Abs(i) == IF i < 0 THEN -i ELSE i

Sgn(i) == IF i < 0 THEN -1 ELSE IF i > 0 THEN 1 ELSE 0

RECURSIVE GCD(_, _)
GCD(a, b) == IF b = 0 THEN a ELSE GCD(b, a % b)

\* the scalar n/d: lowest terms, positive denominator; d = 0 gives inf / NaN
Norm(n, d) ==
    IF d = 1 THEN <<n, 1>>
    ELSE IF d = 0 THEN <<Sgn(n), 0>>
    ELSE LET g == GCD(Abs(n), Abs(d))
         IN  <<(Sgn(d) * n) \div g, Abs(d) \div g>>

FInt(i) == <<i, 1>>

FZero == <<0, 1>>

FOne == <<1, 1>>

FNaN == <<0, 0>>

IsNaN(a) == a = FNaN

FNeg(a) == <<-a[1], a[2]>>

FAdd(a, b) ==
    IF a[2] # 0 /\ b[2] # 0 THEN Norm(a[1] * b[2] + b[1] * a[2], a[2] * b[2])
    ELSE IF a[2] # 0 THEN b
    ELSE IF b[2] # 0 THEN a
    ELSE IF a = b THEN a ELSE FNaN

FSub(a, b) == FAdd(a, FNeg(b))

FMul(a, b) == Norm(a[1] * b[1], a[2] * b[2])

\* x / 0 = +-inf, 0 / 0 = NaN, x / inf = 0
FDiv(a, b) == FMul(a, Norm(b[2], b[1]))

FAbs(a) == <<Abs(a[1]), a[2]>>

\* IEEE >: false when either side is NaN
FGt(a, b) ==
    IF IsNaN(a) \/ IsNaN(b) THEN FALSE
    ELSE IF a[2] = 0 /\ b[2] = 0 THEN a[1] > b[1]
    ELSE a[1] * b[2] > b[1] * a[2]

\* exact square root of a scalar that is a square (the only ones taken here)
FSqrt(a) ==
    LET n == CHOOSE r \in 0..Abs(a[1]) : r * r = a[1]
        d == CHOOSE r \in 0..a[2] : r * r = a[2]
    IN  Norm(n, d)

\* the sum of a tuple of 2, 3 or 4 scalars, left to right
FSum(s) ==
    IF Len(s) = 2 THEN FAdd(s[1], s[2])
    ELSE IF Len(s) = 3 THEN FAdd(FAdd(s[1], s[2]), s[3])
    ELSE FAdd(FAdd(FAdd(s[1], s[2]), s[3]), s[4])

(* ------------------------------ vectors ------------------------------- *)
VZero(n) == [i \in 1..n |-> FZero]

VAdd(u, v) == [i \in 1..Len(u) |-> FAdd(u[i], v[i])]

VSub(u, v) == [i \in 1..Len(u) |-> FSub(u[i], v[i])]

VNeg(u) == [i \in 1..Len(u) |-> FNeg(u[i])]

\* scalar * vector and vector * scalar
VScale(s, u) == [i \in 1..Len(u) |-> FMul(s, u[i])]

VDivS(u, s) == [i \in 1..Len(u) |-> FDiv(u[i], s)]

VDot(u, v) == FSum([i \in 1..Len(u) |-> FMul(u[i], v[i])])

VMag(u) == FSqrt(VDot(u, u))

VNormalized(u) == VDivS(u, VMag(u))

\* the vector with integer coordinates c (a tuple of integers)
VInt(c) == [i \in 1..Len(c) |-> FInt(c[i])]

(* ------------------------------ rotors -------------------------------- *)
\* rotor * vector: the rotation applied to the vector
RotVec(r, v) ==
    [i \in 1..Len(v) |-> IF r[i] > 0 THEN v[r[i]] ELSE FNeg(v[-r[i]])]

\* rotor * rotor: a * b rotates by b first and then by a
RotMul(a, b) ==
    [i \in 1..Len(a) |-> IF a[i] > 0 THEN b[a[i]] ELSE -b[-a[i]]]

\* Rotor::reverse: the inverse rotation
RotReversed(r) ==
    [i \in 1..Len(r) |->
        LET j == CHOOSE k \in 1..Len(r) : Abs(r[k]) = i IN Sgn(r[j]) * j]

RotIdentity(n) == [i \in 1..n |-> i]

\* quarter turns: in the plane, (x, y) |-> (-y, x), and about the x and z axes
Rot2Q == <<-2, 1>>

Rot3X == <<1, -3, 2>>

Rot3Z == <<-2, 1, 3>>

(* ------------------------------ matrices ------------------------------ *)
\* $mt::from_translation: the homogeneous matrix of x |-> x + t
MatFromTranslation(t) ==
    LET n == Len(t) + 1
    IN  [i \in 1..n |-> [j \in 1..n |->
            IF i = j THEN FOne
            ELSE IF j = n THEN t[i]
            ELSE FZero]]

\* Rotor::into_matrix
RotIntoMatrix(r) ==
    [i \in 1..Len(r) |-> [j \in 1..Len(r) |->
        IF j = Abs(r[i]) THEN FInt(Sgn(r[i])) ELSE FZero]]

\* Mat::into_homogeneous: one more row and column, 1 in the corner
MatIntoHomogeneous(m) ==
    LET n == Len(m) + 1
    IN  [i \in 1..n |-> [j \in 1..n |->
            IF i < n /\ j < n THEN m[i][j]
            ELSE IF i = j THEN FOne
            ELSE FZero]]

MatMul(a, b) ==
    [i \in 1..Len(a) |->
        [j \in 1..Len(a) |-> FSum([k \in 1..Len(a) |-> FMul(a[i][k], b[k][j])])]]

MatVec(m, v) ==
    [i \in 1..Len(m) |-> FSum([j \in 1..Len(m) |-> FMul(m[i][j], v[j])])]

\* the homogeneous point (v, 1)
Homogeneous(v) == Append(v, FOne)

(* ------------------------------ Isometry ------------------------------ *)
Iso_new(translation, rotation) ==
    [translation |-> translation, rotation |-> rotation]

Iso_identity(n) == [rotation |-> RotIdentity(n), translation |-> VZero(n)]

Iso_prepend_rotation(self, rotor) ==
    [self EXCEPT !.rotation = RotMul(rotor, self.rotation)]

Iso_append_rotation(self, rotor) ==
    [self EXCEPT !.rotation = RotMul(rotor, self.rotation),
                 !.translation = RotVec(rotor, self.translation)]

Iso_prepend_translation(self, translation) ==
    [self EXCEPT !.translation =
        VAdd(self.translation, RotVec(self.rotation, translation))]

Iso_append_translation(self, translation) ==
    [self EXCEPT !.translation = VAdd(self.translation, translation)]

Iso_transform_vec(self, vec) ==
    VAdd(RotVec(self.rotation, vec), self.translation)

\* Iso_mul with receiver and argument exchanged in the translation
Iso_mul_ExchangedTranslation(self, base) ==
    LET trans == Iso_transform_vec(base, self.translation)
        rot == RotMul(self.rotation, base.rotation)
    IN  Iso_new(trans, rot)

\* impl Mul<$ison> for $ison:  self * base
Iso_mul(self, base) ==
    LET trans == Iso_transform_vec(self, base.translation)
        rot == RotMul(self.rotation, base.rotation)
    IN  Iso_new(trans, rot)

Iso_prepend_isometry(self, other) == Iso_mul(self, other)

Iso_append_isometry(self, other) == Iso_mul(other, self)

\* Iso_inverse without the negation of the translation
Iso_inverse_NotNegated(self) ==
    LET rotation == RotReversed(self.rotation)
    IN  [rotation |-> rotation,
         translation |-> RotVec(rotation, self.translation)]

Iso_inverse(self) ==
    LET rotation == RotReversed(self.rotation)
    IN  [rotation |-> rotation,
         translation |-> RotVec(rotation, VNeg(self.translation))]

Iso_inversed(self) == Iso_inverse(self)

Iso_into_homogeneous_matrix(self) ==
    MatMul(MatFromTranslation(self.translation),
           MatIntoHomogeneous(RotIntoMatrix(self.rotation)))

\* impl Mul<$ison> for $rt:  rotor * iso
Rotor_mul_Iso(rotor, iso) == Iso_append_rotation(iso, rotor)

\* impl Mul<$rt> for $ison:  iso * rotor
Iso_mul_Rotor(self, rotor) == Iso_prepend_rotation(self, rotor)

\* impl Mul<$vt> for $ison:  iso * vec
Iso_mul_Vec(self, vec) == Iso_transform_vec(self, vec)

(* ----------------------------- Similarity ----------------------------- *)
Sim_new(translation, rotation, scale) ==
    [translation |-> translation, rotation |-> rotation, scale |-> scale]

Sim_identity(n) ==
    [rotation |-> RotIdentity(n), translation |-> VZero(n), scale |-> FInt(1)]

Sim_prepend_scaling(self, scaling) ==
    [self EXCEPT !.scale = FMul(self.scale, scaling)]

Sim_append_scaling(self, scaling) ==
    [self EXCEPT !.scale = FMul(self.scale, scaling),
                 !.translation = VScale(scaling, self.translation)]

Sim_prepend_rotation(self, rotor) ==
    [self EXCEPT !.rotation = RotMul(rotor, self.rotation)]

Sim_append_rotation(self, rotor) ==
    [self EXCEPT !.rotation = RotMul(rotor, self.rotation),
                 !.translation = RotVec(rotor, self.translation)]

Sim_prepend_translation(self, translation) ==
    [self EXCEPT !.translation =
        VAdd(self.translation,
             VScale(self.scale, RotVec(self.rotation, translation)))]

Sim_append_translation(self, translation) ==
    [self EXCEPT !.translation = VAdd(self.translation, translation)]

Sim_transform_vec(self, vec) ==
    VAdd(VScale(self.scale, RotVec(self.rotation, vec)), self.translation)

\* Sim_mul with the rotations composed in the other order
Sim_mul_ExchangedRotation(self, base) ==
    LET trans == Sim_transform_vec(self, base.translation)
        rot == RotMul(base.rotation, self.rotation)
        scale == FMul(self.scale, base.scale)
    IN  Sim_new(trans, rot, scale)

\* Sim_mul that keeps the receiver's scale
Sim_mul_ScaleOfSelf(self, base) ==
    LET trans == Sim_transform_vec(self, base.translation)
        rot == RotMul(self.rotation, base.rotation)
        scale == self.scale
    IN  Sim_new(trans, rot, scale)

\* impl Mul<$sn> for $sn:  self * base
Sim_mul(self, base) ==
    LET trans == Sim_transform_vec(self, base.translation)
        rot == RotMul(self.rotation, base.rotation)
        scale == FMul(self.scale, base.scale)
    IN  Sim_new(trans, rot, scale)

Sim_prepend_similarity(self, other) == Sim_mul(self, other)

Sim_append_similarity(self, other) == Sim_mul(other, self)

Sim_inverse(self) ==
    LET rotation == RotReversed(self.rotation)
    IN  [rotation |-> rotation,
         translation |-> RotVec(rotation, VNeg(self.translation)),
         scale |-> FDiv(FInt(1), self.scale)]

Sim_inversed(self) == Sim_inverse(self)

Sim_into_homogeneous_matrix(self) ==
    MatMul(MatFromTranslation(self.translation),
           MatIntoHomogeneous(RotIntoMatrix(self.rotation)))

\* impl Mul<$sn> for $rt:  rotor * sim
Rotor_mul_Sim(rotor, iso) == Sim_append_rotation(iso, rotor)

\* impl Mul<$rt> for $sn:  sim * rotor
Sim_mul_Rotor(self, rotor) == Sim_prepend_rotation(self, rotor)

\* impl Mul<$vt> for $sn:  sim * vec
Sim_mul_Vec(self, vec) == Sim_transform_vec(self, vec)

(* --------------------------- Plane and Ray ---------------------------- *)
\* Option<f32>: None is the empty sequence, Some(x) the sequence <<x>>
None == <<>>

Some(x) == <<x>>

\* std::f32::MIN, the most negative finite f32, -(2^24 - 1) * 2^104.  The
\* scalars of the model stay far above -(2^24 - 1), which stands for it here.
F32_MIN == <<-16777215, 1>>

Plane_new(normal, bias) == [normal |-> normal, bias |-> bias]

Plane_from_point_normal(point, normal) ==
    LET normalized == VNormalized(normal)
    IN  [normal |-> <<normalized[1], normalized[2], normalized[3]>>,
         bias |-> VDot(point, normalized)]

Plane_with_x(x) ==
    Plane_from_point_normal(<<x, FZero, FZero>>, <<FOne, FZero, FZero>>)

Plane_with_y(y) ==
    Plane_from_point_normal(<<FZero, y, FZero>>, <<FZero, FOne, FZero>>)

Plane_with_z(z) ==
    Plane_from_point_normal(<<FZero, FZero, z>>, <<FZero, FZero, FOne>>)

Plane_dot_point(self, point) ==
    FAdd(FAdd(FAdd(FMul(self.normal[1], point[1]),
                   FMul(self.normal[2], point[2])),
              FMul(self.normal[3], point[3])),
         self.bias)

Plane_dot(self, point) ==
    FAdd(FAdd(FMul(self.normal[1], point[1]),
              FMul(self.normal[2], point[2])),
         FMul(self.normal[3], point[3]))

Plane_intersect_line(self, point, direction) ==
    LET fv == Plane_dot(self, direction)
        distance == FDiv(Plane_dot_point(self, point), fv)
    IN  IF FGt(FAbs(fv), F32_MIN) THEN Some(distance) ELSE None

Plane_intersect_ray(self, ray) ==
    Plane_intersect_line(self, ray.origin, ray.direction)

Ray_intersect_plane(self, plane) == Plane_intersect_ray(plane, self)

Ray_at_distance(self, z) == VSub(self.origin, VScale(z, self.direction))

(* ------------------------------- state -------------------------------- *)
VARIABLES
    ty,      \* the transform type under operation (one macro instantiation)
    self,    \* the transform value (an Isometry or a Similarity)
    last,    \* the last operation applied to self, its receiver and arguments
    plane,   \* the current Plane
    ctor,    \* how plane was constructed: the axis and the coordinate
    ray,     \* the current Ray
    gop,     \* the last Plane / Ray operation
    hit,     \* Option<f32>: the last result of Ray::intersect_plane
    dist,    \* the distance last given to Ray::at_distance
    point    \* Option<Vec3>: the last result of Ray::at_distance

vars == <<ty, self, last, plane, ctor, ray, gop, hit, dist, point>>

tvars == <<ty, self, last>>

gvars == <<plane, ctor, ray, gop, hit, dist, point>>

IsoTypes == {"Isometry2", "Isometry3"}

SimTypes == {"Similarity2", "Similarity3"}

\* the length of $vt in the instantiation t
Dim(t) == IF t \in {"Isometry2", "Similarity2"} THEN 2 ELSE 3

IsSim(t) == t \in SimTypes

Identity(t) == IF IsSim(t) THEN Sim_identity(Dim(t)) ELSE Iso_identity(Dim(t))

(* ------------------------------- inputs ------------------------------- *)
\* the unit vector along axis k
Unit(n, k) == [i \in 1..n |-> IF i = k THEN FOne ELSE FZero]

\* rotors given as arguments; their compositions are the 4 quarter turns of
\* the plane and the 24 rotations of the cube
RotArgs(n) == IF n = 2 THEN {Rot2Q} ELSE {Rot3X, Rot3Z}

\* translations given as arguments
VecArgs(n) == {Unit(n, k) : k \in 1..n}

\* scalings given as arguments
ScaleArgs == {Norm(2, 1), Norm(1, 2)}

\* vectors the transforms are applied to: the origin, the unit vectors and
\* one vector off every axis and diagonal; they determine an affine map
Vecs(n) ==
    {VZero(n), VInt([i \in 1..n |-> i]), VInt([i \in 1..n |-> 2 * i - 5])}
        \cup {Unit(n, k) : k \in 1..n}

\* transforms given as arguments of prepend_ / append_isometry (similarity)
Others(t) ==
    LET n == Dim(t)
        r == CHOOSE x \in RotArgs(n) : TRUE
    IN  IF IsSim(t)
        THEN {Sim_identity(n),
              Sim_new(Unit(n, 1), r, Norm(2, 1)),
              Sim_new(Unit(n, 2), RotReversed(r), Norm(1, 2))}
        ELSE {Iso_identity(n),
              Iso_new(Unit(n, 1), r),
              Iso_new(Unit(n, 2), RotReversed(r))}

\* those of them that are not the identity
Composed(t) == Others(t) \ {Identity(t)}

CoordInBounds(c) == c[2] = 1 /\ Abs(c[1]) <= MaxCoord

ScaleInBounds(s) == s[1] >= 1 /\ s[1] <= MaxScale /\ s[2] >= 1 /\ s[2] <= MaxScale

\* the transforms kept in the state
InBounds(t, x) ==
    /\ \A i \in 1..Dim(t) : CoordInBounds(x.translation[i])
    /\ IsSim(t) => ScaleInBounds(x.scale)

(* ------------------------------ Init ---------------------------------- *)
\* the record of an operation: its name, the receiver before it, its arguments
Op(name, before, rotor, vec, other, scaling) ==
    [op |-> name, before |-> before, rotor |-> rotor, vec |-> vec,
     other |-> other, scaling |-> scaling]

InitRay == [origin |-> VInt(<<0, 0, 1>>), direction |-> VInt(<<0, 0, -1>>)]

Init ==
    /\ ty \in IsoTypes \cup SimTypes
    /\ self = Identity(ty)
    /\ last = Op("identity", Identity(ty), RotIdentity(Dim(ty)), VZero(Dim(ty)),
                 Identity(ty), FOne)
    /\ plane = Plane_with_z(FZero)
    /\ ctor = [axis |-> 3, coord |-> FZero]
    /\ ray = InitRay
    /\ gop = "new"
    /\ hit = None
    /\ dist = FZero
    /\ point = None

(* ------------------------- transform actions -------------------------- *)
\* self becomes new by operation name; values outside the bounds are not kept
Apply(name, new, rotor, vec, other, scaling) ==
    /\ InBounds(ty, new)
    /\ self' = new
    /\ last' = Op(name, self, rotor, vec, other, scaling)
    /\ UNCHANGED <<ty, gvars>>

WithRotor(name, new, rotor) ==
    Apply(name, new, rotor, VZero(Dim(ty)), Identity(ty), FOne)

WithVec(name, new, vec) ==
    Apply(name, new, RotIdentity(Dim(ty)), vec, Identity(ty), FOne)

WithOther(name, new, other) ==
    Apply(name, new, RotIdentity(Dim(ty)), VZero(Dim(ty)), other, FOne)

WithScaling(name, new, scaling) ==
    Apply(name, new, RotIdentity(Dim(ty)), VZero(Dim(ty)), Identity(ty), scaling)

IsoPrependRotation ==
    /\ ty \in IsoTypes
    /\ \E r \in RotArgs(Dim(ty)) :
        WithRotor("prepend_rotation", Iso_prepend_rotation(self, r), r)

IsoAppendRotation ==
    /\ ty \in IsoTypes
    /\ \E r \in RotArgs(Dim(ty)) :
        WithRotor("append_rotation", Iso_append_rotation(self, r), r)

IsoPrependTranslation ==
    /\ ty \in IsoTypes
    /\ \E t \in VecArgs(Dim(ty)) :
        WithVec("prepend_translation", Iso_prepend_translation(self, t), t)

IsoAppendTranslation ==
    /\ ty \in IsoTypes
    /\ \E t \in VecArgs(Dim(ty)) :
        WithVec("append_translation", Iso_append_translation(self, t), t)

IsoPrependIsometry ==
    /\ ty \in IsoTypes
    /\ \E o \in Others(ty) :
        WithOther("prepend", Iso_prepend_isometry(self, o), o)

IsoAppendIsometry ==
    /\ ty \in IsoTypes
    /\ \E o \in Others(ty) :
        WithOther("append", Iso_append_isometry(self, o), o)

IsoInverse ==
    /\ ty \in IsoTypes
    /\ WithScaling("inverse", Iso_inverse(self), FOne)

SimPrependScaling ==
    /\ ty \in SimTypes
    /\ \E s \in ScaleArgs :
        WithScaling("prepend_scaling", Sim_prepend_scaling(self, s), s)

SimAppendScaling ==
    /\ ty \in SimTypes
    /\ \E s \in ScaleArgs :
        WithScaling("append_scaling", Sim_append_scaling(self, s), s)

SimPrependRotation ==
    /\ ty \in SimTypes
    /\ \E r \in RotArgs(Dim(ty)) :
        WithRotor("prepend_rotation", Sim_prepend_rotation(self, r), r)

SimAppendRotation ==
    /\ ty \in SimTypes
    /\ \E r \in RotArgs(Dim(ty)) :
        WithRotor("append_rotation", Sim_append_rotation(self, r), r)

SimPrependTranslation ==
    /\ ty \in SimTypes
    /\ \E t \in VecArgs(Dim(ty)) :
        WithVec("prepend_translation", Sim_prepend_translation(self, t), t)

SimAppendTranslation ==
    /\ ty \in SimTypes
    /\ \E t \in VecArgs(Dim(ty)) :
        WithVec("append_translation", Sim_append_translation(self, t), t)

SimPrependSimilarity ==
    /\ ty \in SimTypes
    /\ \E o \in Others(ty) :
        WithOther("prepend", Sim_prepend_similarity(self, o), o)

SimAppendSimilarity ==
    /\ ty \in SimTypes
    /\ \E o \in Others(ty) :
        WithOther("append", Sim_append_similarity(self, o), o)

SimInverse ==
    /\ ty \in SimTypes
    /\ WithScaling("inverse", Sim_inverse(self), FOne)

NextTransform ==
    \/ IsoPrependRotation
    \/ IsoAppendRotation
    \/ IsoPrependTranslation
    \/ IsoAppendTranslation
    \/ IsoPrependIsometry
    \/ IsoAppendIsometry
    \/ IsoInverse
    \/ SimPrependScaling
    \/ SimAppendScaling
    \/ SimPrependRotation
    \/ SimAppendRotation
    \/ SimPrependTranslation
    \/ SimAppendTranslation
    \/ SimPrependSimilarity
    \/ SimAppendSimilarity
    \/ SimInverse

SpecTransform == Init /\ [][NextTransform]_vars

(* ------------------------ Plane and Ray actions ----------------------- *)
GeoCoords == -MaxGeo..MaxGeo

Points == {VInt(c) : c \in [1..3 -> GeoCoords]}

\* directions of rays: not normalized, never the zero vector
Directions == Points \ {VZero(3)}

\* distances given to Ray::at_distance directly
Distances == {FInt(1), FInt(5), Norm(-1, 2)}

\* a Plane or a Ray is replaced: the results computed from the old ones go
Replace(name) ==
    /\ gop' = name
    /\ hit' = None
    /\ dist' = FZero
    /\ point' = None
    /\ UNCHANGED tvars

PlaneWithX ==
    \E c \in GeoCoords :
        /\ plane' = Plane_with_x(FInt(c))
        /\ ctor' = [axis |-> 1, coord |-> FInt(c)]
        /\ Replace("with_x")
        /\ UNCHANGED ray

PlaneWithY ==
    \E c \in GeoCoords :
        /\ plane' = Plane_with_y(FInt(c))
        /\ ctor' = [axis |-> 2, coord |-> FInt(c)]
        /\ Replace("with_y")
        /\ UNCHANGED ray

PlaneWithZ ==
    \E c \in GeoCoords :
        /\ plane' = Plane_with_z(FInt(c))
        /\ ctor' = [axis |-> 3, coord |-> FInt(c)]
        /\ Replace("with_z")
        /\ UNCHANGED ray

\* ray.origin = o  (the fields of Ray are public)
RayOrigin ==
    \E o \in Points :
        /\ ray' = [ray EXCEPT !.origin = o]
        /\ Replace("ray")
        /\ UNCHANGED <<plane, ctor>>

\* ray.direction = d
RayDirection ==
    \E d \in Directions :
        /\ ray' = [ray EXCEPT !.direction = d]
        /\ Replace("ray")
        /\ UNCHANGED <<plane, ctor>>

\* let distance = ray.intersect_plane(&plane)
IntersectPlane ==
    /\ hit' = Ray_intersect_plane(ray, plane)
    /\ gop' = "intersect_plane"
    /\ dist' = FZero
    /\ point' = None
    /\ UNCHANGED <<tvars, plane, ctor, ray>>

\* let point = ray.at_distance(distance.unwrap())
AtDistanceHit ==
    /\ gop = "intersect_plane"
    /\ hit # None
    /\ dist' = hit[1]
    /\ point' = Some(Ray_at_distance(ray, hit[1]))
    /\ gop' = "at_hit"
    /\ UNCHANGED <<tvars, plane, ctor, ray, hit>>

\* let point = ray.at_distance(t)
AtDistance ==
    \E t \in Distances :
        /\ dist' = t
        /\ point' = Some(Ray_at_distance(ray, t))
        /\ gop' = "at_distance"
        /\ hit' = None
        /\ UNCHANGED <<tvars, plane, ctor, ray>>

NextGeometry ==
    \/ PlaneWithX
    \/ PlaneWithY
    \/ PlaneWithZ
    \/ RayOrigin
    \/ RayDirection
    \/ IntersectPlane
    \/ AtDistanceHit
    \/ AtDistance

\* the Plane and Ray operations alone, beside one idle transform
InitGeometry == Init /\ ty = "Isometry3"

SpecGeometry == InitGeometry /\ [][NextGeometry]_vars

Next == NextTransform \/ NextGeometry

Spec == Init /\ [][Next]_vars

(* ------------------- the operations of either type ------------------- *)
\* x.transform_vec(v) for a transform x of type t
TransformVec(t, x, v) ==
    IF IsSim(t) THEN Sim_transform_vec(x, v) ELSE Iso_transform_vec(x, v)

\* a * b for transforms of type t
Mul(t, a, b) == IF IsSim(t) THEN Sim_mul(a, b) ELSE Iso_mul(a, b)

\* x * rotor for a transform x of type t
MulRotor(t, x, rotor) ==
    IF IsSim(t) THEN Sim_mul_Rotor(x, rotor) ELSE Iso_mul_Rotor(x, rotor)

\* x.into_homogeneous_matrix() for a transform x of type t
IntoHomogeneousMatrix(t, x) ==
    IF IsSim(t) THEN Sim_into_homogeneous_matrix(x)
    ELSE Iso_into_homogeneous_matrix(x)

\* neither rotor is the identity and they do not commute
NotCommuting(a, b) == RotMul(a, b) # RotMul(b, a)

(* ------------------------------- claims ------------------------------- *)

\* C1: the inverse of a Similarity undoes transform_vec: for every Similarity
\* S of non-zero scale and every vector v,
\* S.inversed().transform_vec(S.transform_vec(v)) = v.
C1_SimilarityInverseRoundTrip ==
    ty \in SimTypes =>
        \A v \in Vecs(Dim(ty)) :
            Sim_transform_vec(Sim_inversed(self), Sim_transform_vec(self, v)) = v

\* C2: the inverse of an Isometry (2D or 3D) undoes transform_vec: for every
\* Isometry I and vector v, I.inversed().transform_vec(I.transform_vec(v)) = v,
\* and after I.inverse() the new I maps I_old.transform_vec(v) back to v.
C2_IsometryInverseRoundTrip ==
    ty \in IsoTypes =>
        \A v \in Vecs(Dim(ty)) :
            /\ Iso_transform_vec(Iso_inversed(self), Iso_transform_vec(self, v)) = v
            /\ last.op = "inverse" =>
                Iso_transform_vec(self, Iso_transform_vec(last.before, v)) = v

\* an Isometry3 with a rotation and a translation has been inverted
C2_Witness ==
    /\ ty = "Isometry3"
    /\ last.op = "inverse"
    /\ last.before.rotation # RotIdentity(3)
    /\ last.before.translation # VZero(3)
    /\ self.translation # VNeg(last.before.translation)

\* C3: Plane::intersect_line (so intersect_ray and Ray::intersect_plane)
\* returns None whenever the direction is orthogonal to the plane's normal,
\* that is when fv = dot(normal, direction) is zero.
C3_ParallelReturnsNone ==
    (gop = "intersect_plane" /\ Plane_dot(plane, ray.direction) = FZero)
        => hit = None

\* C4: Ray::at_distance(t) is origin + direction * t.
C4_AtDistanceAddsDirection ==
    gop \in {"at_distance", "at_hit"} =>
        point = Some(VAdd(ray.origin, VScale(dist, ray.direction)))

\* C5: for a plane with_x(c), with_y(c) or with_z(c) and a ray whose direction
\* has a non-zero component on that axis, intersect_plane returns Some(d) and
\* the point at_distance(d) has the coordinate c on that axis.
C5_IntersectionLiesOnPlane ==
    (gop \in {"intersect_plane", "at_hit"} /\ ray.direction[ctor.axis] # FZero)
        => /\ hit # None
           /\ gop = "at_hit" => point[1][ctor.axis] = ctor.coord

\* C6: after prepend_rotation(r) the rotation r is applied before the old
\* transform: the new transform_vec(v) is the old transform_vec(r * v), the
\* translation is unchanged, and the operator form I * r gives the same value.
C6_PrependRotationAppliesFirst ==
    last.op = "prepend_rotation" =>
        /\ \A v \in Vecs(Dim(ty)) :
            TransformVec(ty, self, v)
                = TransformVec(ty, last.before, RotVec(last.rotor, v))
        /\ self.translation = last.before.translation
        /\ self = MulRotor(ty, last.before, last.rotor)

\* C7: composition follows application order: (a * b).transform_vec(v) is
\* a.transform_vec(b.transform_vec(v)) for isometries and for similarities, so
\* prepend_isometry(other) applies other first and append_isometry(other)
\* applies other last (likewise prepend_ / append_similarity).
C7_CompositionOrder ==
    \A v \in Vecs(Dim(ty)) :
        /\ last.op = "prepend" =>
            /\ self = Mul(ty, last.before, last.other)
            /\ TransformVec(ty, self, v)
                = TransformVec(ty, last.before, TransformVec(ty, last.other, v))
        /\ last.op = "append" =>
            /\ self = Mul(ty, last.other, last.before)
            /\ TransformVec(ty, self, v)
                = TransformVec(ty, last.other, TransformVec(ty, last.before, v))

\* a Similarity3 with scale, rotation and translation has been composed with
\* another whose rotation does not commute with its own
C7_Witness ==
    /\ ty = "Similarity3"
    /\ last.op = "prepend"
    /\ NotCommuting(last.before.rotation, last.other.rotation)
    /\ last.before.scale # FOne
    /\ last.other.scale # FOne
    /\ last.before.translation # VZero(3)
    /\ last.other.translation # VZero(3)

\* C8: composition is associative, field by field: (a * b) * c = a * (b * c)
\* for isometries and for similarities.
\* Checked where a composition has been made, self = before * other or
\* self = other * before, with every third transform c put on either side.
C8_Associativity ==
    \A c \in Composed(ty) :
        /\ last.op = "prepend" =>
            /\ Mul(ty, self, c) = Mul(ty, last.before, Mul(ty, last.other, c))
            /\ Mul(ty, c, self) = Mul(ty, Mul(ty, c, last.before), last.other)
        /\ last.op = "append" =>
            /\ Mul(ty, c, self) = Mul(ty, Mul(ty, c, last.other), last.before)
            /\ Mul(ty, self, c) = Mul(ty, last.other, Mul(ty, last.before, c))

\* an Isometry3 with a rotation and a translation has been composed with
\* another whose rotation does not commute with its own
C8_Witness ==
    /\ ty = "Isometry3"
    /\ last.op = "prepend"
    /\ NotCommuting(last.before.rotation, last.other.rotation)
    /\ last.before.translation # VZero(3)
    /\ last.other.translation # VZero(3)

\* C9: identity() has the identity rotation, zero translation and (Similarity)
\* scale 1 and is a two-sided unit: identity() * x = x and x * identity() = x.
C9_IdentityIsUnit ==
    /\ Identity(ty).rotation = RotIdentity(Dim(ty))
    /\ Identity(ty).translation = VZero(Dim(ty))
    /\ IsSim(ty) => Identity(ty).scale = FOne
    /\ Mul(ty, Identity(ty), self) = self
    /\ Mul(ty, self, Identity(ty)) = self
    /\ (last.op \in {"prepend", "append"} /\ last.other = Identity(ty))
        => self = last.before

\* identity() has been appended to a Similarity3 with scale, rotation and
\* translation
C9_Witness ==
    /\ ty = "Similarity3"
    /\ last.op = "append"
    /\ last.other = Identity(ty)
    /\ last.before.scale # FOne
    /\ last.before.rotation # RotIdentity(3)
    /\ last.before.translation # VZero(3)

\* C10: the homogeneous matrix of a transform is the matrix of transform_vec:
\* into_homogeneous_matrix() * (v, 1) = (transform_vec(v), 1), for a Similarity
\* of any scale as for an Isometry.
C10_HomogeneousMatrixIsTransformVec ==
    \A v \in Vecs(Dim(ty)) :
        MatVec(IntoHomogeneousMatrix(ty, self), Homogeneous(v))
            = Homogeneous(TransformVec(ty, self, v))

====
